---- MODULE Spec2Model ----
(***************************************************************************)
(* A model of django-cli-query's management command "query"                *)
(* (cli_query/management/commands/query.py): Command.handle, its nested    *)
(* helper getattr_r and the module function make_filter.                   *)
(*                                                                         *)
(* Python strings that the code takes apart (filter tokens, update tokens, *)
(* the --fields list, the prompt's answer) are sequences of one-character  *)
(* strings, so that split, startswith, endswith, slicing and lower are     *)
(* computed as the code computes them.  Strings the code only compares or  *)
(* tests for truth (application, model, template, template_file) are       *)
(* atomic; None and '' are both the falsy "" there.                        *)
(***************************************************************************)
EXTENDS Integers, Sequences, FiniteSets, TLC

VARIABLES
    options,    \* the parsed command line options (dict `options` of handle)
    args,       \* the positional filter tokens (handle's args)
    pc,         \* the position of handle in its pipeline
    exc,        \* the exception that ended the invocation, or NoExc
    qargs,      \* the predicate list make_filter returned, or <<>> before
    filtered,   \* make_filter has been called
    queryset,   \* "none", or "built" once model.objects.filter() returned
    queried,    \* the data store has been read through the queryset
    db,         \* the data store: record id -> field name -> value
    out,        \* what was written to stdout, in order
    resp,       \* the answer raw_input returned, or NoResp before
    prompts,    \* how many times the confirmation prompt was shown
    applied,    \* how many times queryset.update() ran
    renders     \* how many templates were rendered

vars == <<options, args, pc, exc, qargs, filtered, queryset, queried, db, out,
          resp, prompts, applied, renders>>

----------------------------------------------------------------------------
(* Bounds of the model. *)

\* the longest list of positional filter tokens
MaxArgs == 2
\* the longest list of -u tokens
MaxUpdates == 2
\* the longest dotted path of --fields, in hops
MaxHops == 3

----------------------------------------------------------------------------
(* Python string operations, on sequences of characters. *)

\* the characters of the model's strings, in ASCII order
Alphabet ==
    <<"!", ",", "-", ".", "1", "=", "Y", "_", "a", "b", "c", "d", "e", "f",
      "g", "i", "k", "l", "m", "n", "o", "r", "s", "t", "u", "v", "x", "y",
      "z", "~">>

Ord(c) == CHOOSE i \in 1..Len(Alphabet) : Alphabet[i] = c

\* c in s
Contains(s, c) == \E i \in 1..Len(s) : s[i] = c

\* s.find(c) as a 1-based index; 0 when c is not in s
Find(s, c) ==
    IF Contains(s, c)
    THEN CHOOSE i \in 1..Len(s) : s[i] = c /\ \A j \in 1..(i-1) : s[j] # c
    ELSE 0

\* s.split(c, 1): the part before the first c and the part after it; the
\* whole string alone when c is not in s
Split1(s, c) ==
    LET i == Find(s, c)
    IN  IF i = 0 THEN <<s>>
        ELSE <<SubSeq(s, 1, i-1), SubSeq(s, i+1, Len(s))>>

\* s.split(c): split at every c
RECURSIVE SplitAll(_, _)
SplitAll(s, c) ==
    LET i == Find(s, c)
    IN  IF i = 0 THEN <<s>>
        ELSE <<SubSeq(s, 1, i-1)>> \o SplitAll(SubSeq(s, i+1, Len(s)), c)

\* s.startswith(p), s.endswith(p)
StartsWith(s, p) == Len(s) >= Len(p) /\ SubSeq(s, 1, Len(p)) = p
EndsWith(s, p) ==
    Len(s) >= Len(p) /\ SubSeq(s, Len(s) - Len(p) + 1, Len(s)) = p

\* s.lower(): of the model's characters only "Y" is upper case
Lower(s) == [i \in 1..Len(s) |-> IF s[i] = "Y" THEN "y" ELSE s[i]]

\* s < t in Python's string order
RECURSIVE StrLess(_, _)
StrLess(s, t) ==
    IF t = <<>> THEN FALSE
    ELSE IF s = <<>> THEN TRUE
    ELSE IF s[1] # t[1] THEN Ord(s[1]) < Ord(t[1])
    ELSE StrLess(Tail(s), Tail(t))

\* sorted(S) for a set of strings
RECURSIVE Sorted(_)
Sorted(S) ==
    IF S = {} THEN <<>>
    ELSE LET m == CHOOSE a \in S : \A b \in S \ {a} : StrLess(a, b)
         IN  <<m>> \o Sorted(S \ {m})

Range(s) == {s[i] : i \in 1..Len(s)}

\* the sequences over S of length at most n
SeqsUpTo(S, n) == UNION {[1..k -> S] : k \in 0..n}

----------------------------------------------------------------------------
(* make_filter (query.py 206-220). *)

\* Q(key=val) and ~Q(key=val): the field path, the negation flag
\* and the comparison value; a scalar value is the one-element items of a
\* predicate that is not multi-valued
Q(key, val, multi) ==
    [key |-> key, negated |-> FALSE, multi |-> multi, items |-> val]
NotQ(q) == [q EXCEPT !.negated = ~q.negated]

\* TokenQ with the negation character left on the key
TokenQ_KeepsPrefix(x) ==
    LET kv    == Split1(x, "=")
        key   == kv[1]
        multi == EndsWith(key, <<"_", "_", "i", "n">>)
        val   == IF multi THEN SplitAll(kv[2], ",") ELSE <<kv[2]>>
    IN  IF StartsWith(key, <<"!">>) \/ StartsWith(key, <<"~">>)
        THEN NotQ(Q(key, val, multi))
        ELSE Q(key, val, multi)

\* lines 213-219: one token that contains '=' to its predicate
TokenQ(x) ==
    LET kv    == Split1(x, "=")
        key   == kv[1]
        multi == EndsWith(key, <<"_", "_", "i", "n">>)
        val   == IF multi THEN SplitAll(kv[2], ",") ELSE <<kv[2]>>
    IN  IF StartsWith(key, <<"!">>) \/ StartsWith(key, <<"~">>)
        THEN NotQ(Q(Tail(key), val, multi))
        ELSE Q(key, val, multi)

\* line 209: the tokens the loop skips
Skipped(x) == x = <<>>

\* line 211: the tokens the loop raises on
InvalidFilter(x) == ~Contains(x, "=")

\* make_filter's loop passing over a token without '=' instead of raising
RECURSIVE make_filter_loop_Skips(_, _, _)
make_filter_loop_Skips(a, i, qs) ==
    IF i > Len(a) THEN [raised |-> FALSE, qargs |-> qs, token |-> <<>>]
    ELSE IF Skipped(a[i]) \/ InvalidFilter(a[i])
         THEN make_filter_loop_Skips(a, i + 1, qs)
    ELSE make_filter_loop_Skips(a, i + 1, Append(qs, TokenQ(a[i])))

\* the loop of lines 208-219 over the tokens from the i-th on, qs being the
\* list built so far: the predicate list, or the CommandError of line 212
RECURSIVE make_filter_loop(_, _, _)
make_filter_loop(a, i, qs) ==
    IF i > Len(a) THEN [raised |-> FALSE, qargs |-> qs, token |-> <<>>]
    ELSE IF Skipped(a[i]) THEN make_filter_loop(a, i + 1, qs)
    ELSE IF InvalidFilter(a[i])
         THEN [raised |-> TRUE, qargs |-> <<>>, token |-> a[i]]
    ELSE make_filter_loop(a, i + 1, Append(qs, TokenQ(a[i])))

make_filter(a) == make_filter_loop(a, 1, <<>>)

----------------------------------------------------------------------------
(* The project the command runs in: the application registry, the target   *)
(* model's fields and the data store.  They are what the framework answers *)
(* when handle asks; the names follow the help text's examples.            *)

n_name      == <<"n", "a", "m", "e">>
n_status    == <<"s", "t", "a", "t", "u", "s">>
n_rack      == <<"r", "a", "c", "k">>
n_label     == <<"l", "a", "b", "e", "l">>
n_interface == <<"i", "n", "t", "e", "r", "f", "a", "c", "e">>
n_save      == <<"s", "a", "v", "e">>
n_state     == <<"_", "s", "t", "a", "t", "e">>
n_upper     == <<"u", "p", "p", "e", "r">>
n_len       == <<"_", "_", "l", "e", "n", "_", "_">>
n_doc       == <<"_", "_", "d", "o", "c", "_", "_">>
n_call      == <<"_", "_", "c", "a", "l", "l", "_", "_">>
v_live      == <<"l", "i", "v", "e">>
v_dead      == <<"d", "e", "a", "d">>

\* settings.INSTALLED_APPS (line 100)
INSTALLED_APPS == {"servers", "broken"}

\* __import__('%s.models' % application) succeeds (lines 103-106)
Importable(app) == app = "servers"

\* the ModelBase names of the application's models module (line 108)
models_(app) == IF app = "servers" THEN {"Server"} ELSE {}

\* model._meta.get_all_field_names() (line 116)
get_all_field_names == {n_name, n_status, n_rack, n_interface}

\* [x[0].name for x in model._meta.get_fields_with_model()] (line 137): the
\* direct fields; "interface" is a reverse relation
valid_fields == {n_name, n_status, n_rack}

\* model._meta.get_field_by_name(key) finds a field (line 139)
FieldExists(key) == key \in get_all_field_names

\* [x[0] for x in field.choices] (line 142)
choices(key) == IF key = n_status THEN {v_live, v_dead} ELSE {}

\* the records of the model when the command starts: two servers, the
\* second without a rack and first by name
Records == {1, 2}
DB0 ==
    [r \in Records |->
        IF r = 1
        THEN (n_name :> <<"b">>) @@ (n_status :> v_live) @@ (n_rack :> <<"1">>)
        ELSE (n_name :> <<"a">>) @@ (n_status :> v_dead) @@ (n_rack :> <<>>)]

----------------------------------------------------------------------------
(* Python objects and attribute access, as getattr and dir see them. *)

ServerObj(i) == [kind |-> "Server", id |-> i, val |-> <<>>]
RackObj      == [kind |-> "Rack", id |-> 1, val |-> <<>>]
NoneObj      == [kind |-> "None", id |-> 0, val |-> <<>>]
StrObj(v)    == [kind |-> "str", id |-> 0, val |-> v]
MethodObj    == [kind |-> "method", id |-> 0, val |-> <<>>]

\* dir(obj)
Dir(obj) ==
    CASE obj.kind = "Server" -> {n_name, n_status, n_rack, n_save, n_state}
      [] obj.kind = "Rack"   -> {n_label, n_save, n_state}
      [] obj.kind = "str"    -> {n_upper, n_len}
      [] obj.kind = "method" -> {n_call}
      [] OTHER               -> {n_doc}

\* getattr(obj, a) does not raise AttributeError
HasAttr(obj, a) == a \in Dir(obj)

\* getattr(obj, a), for an attribute obj has, in data store d
Getattr(d, obj, a) ==
    CASE obj.kind = "Server" /\ a = n_rack ->
            IF d[obj.id][n_rack] = <<>> THEN NoneObj ELSE RackObj
      [] obj.kind = "Server" /\ a \in {n_name, n_status} -> StrObj(d[obj.id][a])
      [] obj.kind = "Rack" /\ a = n_label -> StrObj(<<"r">>)
      [] a \in {n_state, n_len, n_doc, n_call} -> NoneObj
      [] OTHER -> MethodObj

\* sorted([x for x in dir(obj) if not x.startswith('_')]) of lines 194 and
\* 199, as the set it lists
PublicDir(obj) == {x \in Dir(obj) : ~StartsWith(x, <<"_">>)}

----------------------------------------------------------------------------
(* The data-access layer: model.objects.filter and distinct, order_by,     *)
(* iteration and update (lines 122, 127, 150, 160).                        *)

\* the field a predicate's key names, its lookup suffix dropped
LookupField(q) ==
    IF q.multi THEN SubSeq(q.key, 1, Len(q.key) - 4) ELSE q.key

\* filter() raises FieldError: the key resolves to no field
FieldErrorIn(q) == LookupField(q) \notin valid_fields

\* record r of data store d satisfies predicate q
Satisfies(d, r, q) ==
    LET v   == d[r][LookupField(q)]
        hit == IF q.multi THEN v \in Range(q.items) ELSE v = q.items[1]
    IN  IF q.negated THEN ~hit ELSE hit

\* the records the queryset holds when it is evaluated on data store d
Matching(d, qs) ==
    {r \in Records : \A i \in 1..Len(qs) : Satisfies(d, r, qs[i])}

\* r comes before s in the queryset's order: by primary key, or by name
\* where --order gives "name"
Before(d, order, r, s) ==
    IF order = "name" /\ d[r][n_name] # d[s][n_name]
    THEN StrLess(d[r][n_name], d[s][n_name])
    ELSE r < s

RECURSIVE Ordered(_, _, _)
Ordered(d, order, S) ==
    IF S = {} THEN <<>>
    ELSE LET m == CHOOSE r \in S : \A s \in S \ {r} : Before(d, order, r, s)
         IN  <<m>> \o Ordered(d, order, S \ {m})

\* list(queryset)
Evaluate(d, qs, order) == Ordered(d, order, Matching(d, qs))

\* queryset.update: every matching record gets every new value
Update(d, qs, updates) ==
    [r \in Records |->
        IF r \in Matching(d, qs)
        THEN [f \in DOMAIN d[r] |->
                IF f \in DOMAIN updates THEN updates[f] ELSE d[r][f]]
        ELSE d[r]]

----------------------------------------------------------------------------
(* getattr_r (lines 188-200) and the rows of delimited output. *)

\* unicode(obj) and str(obj): the text of a string, and for any other
\* object a text that names its type
Unicode(obj) == IF obj.kind = "str" THEN obj.val ELSE <<obj.kind>>

\* what a call returns or raises: the value, or the CommandError with the
\* names its message lists and the line that raised it
Returned(v) == [raised |-> FALSE, value |-> v, listed |-> {}, line |-> 0]
Raised(names, line) ==
    [raised |-> TRUE, value |-> NoneObj, listed |-> names, line |-> line]

\* getattr_r whose handler of line 193 also catches what the inner call
\* raised, and so lists the names of the outer object
RECURSIVE getattr_r_OuterCatches(_, _, _)
getattr_r_OuterCatches(d, obj, attr) ==
    IF Contains(attr, ".")
    THEN LET me   == Split1(attr, ".")[1]
             next == Split1(attr, ".")[2]
             r    == getattr_r_OuterCatches(d, Getattr(d, obj, me), next)
         IN  IF HasAttr(obj, me) /\ ~r.raised
             THEN r
             ELSE Raised(PublicDir(obj), 195)
    ELSE IF HasAttr(obj, attr)
         THEN Returned(Getattr(d, obj, attr))
         ELSE Raised(PublicDir(obj), 200)

RECURSIVE getattr_r(_, _, _)
getattr_r(d, obj, attr) ==
    IF Contains(attr, ".")
    THEN LET me   == Split1(attr, ".")[1]
             next == Split1(attr, ".")[2]
         IN  IF HasAttr(obj, me)
             THEN getattr_r(d, Getattr(d, obj, me), next)
             ELSE Raised(PublicDir(obj), 195)
    ELSE IF HasAttr(obj, attr)
         THEN Returned(Getattr(d, obj, attr))
         ELSE Raised(PublicDir(obj), 200)

\* line 204's list comprehension for one record: the cells, or the error
\* of the first field that raises
RECURSIVE Row(_, _, _, _, _)
Row(d, record, fields, i, cells) ==
    IF i > Len(fields) THEN Returned(cells)
    ELSE LET r == getattr_r(d, record, fields[i])
         IN  IF r.raised THEN r
             ELSE Row(d, record, fields, i + 1,
                      Append(cells, Unicode(r.value)))

WriteFields(record, cells) ==
    [kind |-> "fields", rec |-> record, cells |-> cells]

\* the loop of lines 203-204 over the records from the i-th on: the lines
\* written, and the error that ended the loop if one did
RECURSIVE Rows(_, _, _, _, _)
Rows(d, recs, fields, i, written) ==
    IF i > Len(recs) THEN [written |-> written, error |-> Returned(<<>>)]
    ELSE LET r == Row(d, ServerObj(recs[i]), fields, 1, <<>>)
         IN  IF r.raised THEN [written |-> written, error |-> r]
             ELSE Rows(d, recs, fields, i + 1,
                       Append(written, WriteFields(recs[i], r.value)))

----------------------------------------------------------------------------
(* The update assignments of lines 130-147. *)

\* line 132: the token is no assignment
InvalidUpdate(u) == ~Contains(u, "=")

\* line 134: dict([x.split('=', 1) for x in updates]); of two tokens for
\* one key the later one stays
UpdateDict(us) ==
    LET keys == {Split1(us[i], "=")[1] : i \in 1..Len(us)}
        last(k) == CHOOSE i \in 1..Len(us) :
                      /\ Split1(us[i], "=")[1] = k
                      /\ \A j \in (i+1)..Len(us) : Split1(us[j], "=")[1] # k
    IN  [k \in keys |-> Split1(us[last(k)], "=")[2]]

\* lines 139-145: the key raises FieldDoesNotExist
NotAField(key) == ~FieldExists(key) \/ key \notin valid_fields

\* line 146: the value is none of the field's choices
InvalidChoice(key, val) == choices(key) # {} /\ val \notin choices(key)

----------------------------------------------------------------------------
(* The invocations: the options and tokens a command line can give. *)

NoExc == [type |-> "none", line |-> 0, listed |-> {}]
NoResp == <<"-">>

Applications == {"", "servers", "broken", "nosuch"}
ModelNames == {"", "Server", "Nope"}
Templates == {"", "good", "bad"}
TemplateFiles == {"", "-", "file", "loader", "missing"}

\* --fields values: none, one field, and a path through a related record
\* whose last hop does not exist
FieldLists == { <<>>, n_name, n_rack \o <<".", "x">> }

\* filter tokens: matching one record, matching none, and without '='
ArgTokens == { n_name \o <<"=", "a">>, n_name \o <<"=", "z">>, n_name }

\* -u tokens: valid, an invalid choice, a second field, no field, without
\* '=', and a field that is not direct
UpdateTokens ==
    { n_status \o <<"=">> \o v_live,
      n_status \o <<"=", "x">>,
      n_name \o <<"=", "c">>,
      <<"x", "=", "1">>,
      n_status,
      n_interface \o <<"=", "1">> }

\* what the user may answer at the prompt
Responses == { <<"y">>, <<"Y">>, <<"n">>, <<>>, <<"y", "e", "s">> }

Options ==
    [application : Applications, model : ModelNames, fields : FieldLists,
     list_fields : BOOLEAN, order : {""}, separator : {","},
     template : Templates, template_file : TemplateFiles,
     updates : SeqsUpTo(UpdateTokens, MaxUpdates)]

\* invocations on the model that exists
OptionsOn(fieldLists, templates, templateFiles, updateLists) ==
    [application : {"servers"}, model : {"Server"}, fields : fieldLists,
     list_fields : BOOLEAN, order : {"", "name"}, separator : {","},
     template : templates, template_file : templateFiles,
     updates : updateLists]

Start ==
    /\ pc = "start"
    /\ exc = NoExc
    /\ qargs = <<>>
    /\ filtered = FALSE
    /\ queryset = "none"
    /\ queried = FALSE
    /\ db = DB0
    /\ out = <<>>
    /\ resp = NoResp
    /\ prompts = 0
    /\ applied = 0
    /\ renders = 0

\* every combination of the options, with up to MaxUpdates -u tokens and
\* up to MaxArgs filter tokens
Init ==
    /\ options \in Options
    /\ args \in SeqsUpTo(ArgTokens, MaxArgs)
    /\ Start

\* filter tokens in all their forms: plain, with '=' in the value, __in,
\* negated with '!' and with '~', negated __in, two negation characters,
\* an empty key, an empty value, empty, and without '='
FilterTokens ==
    { n_name \o <<"=", "a">>,
      n_name \o <<"=", "a", "=", "b">>,
      n_name \o <<"_", "_", "i", "n", "=", "a", ",", "b">>,
      n_name \o <<"_", "_", "i", "n", "=">>,
      <<"!">> \o n_name \o <<"=", "a">>,
      <<"~">> \o n_name \o <<"=", "a">>,
      <<"~">> \o n_name \o <<"_", "_", "i", "n", "=", "a", ",", "c">>,
      <<"!", "~">> \o n_name \o <<"=", "a">>,
      <<"=", "a">>,
      n_status \o <<"=">>,
      <<>>,
      n_name,
      <<"!">> \o n_name,
      <<"x", "=", "1">> }

\* the invocations that exercise make_filter
InitFilter ==
    /\ options \in OptionsOn({<<>>, n_name}, {"", "good"}, {"", "file"},
                             {<<>>, <<n_status \o <<"=">> \o v_live>>})
    /\ args \in SeqsUpTo(FilterTokens, MaxArgs)
    /\ Start

\* the invocations that exercise the update: every list of -u tokens on
\* the model that exists, with every way of producing output after it
InitUpdate ==
    /\ options \in OptionsOn({<<>>, n_name}, Templates, {"", "missing"},
                             SeqsUpTo(UpdateTokens, MaxUpdates))
    /\ args \in SeqsUpTo(ArgTokens, MaxArgs)
    /\ Start

\* s[1] + sep + s[2] + ... : sep.join(s)
RECURSIVE Join(_, _)
Join(s, sep) ==
    IF s = <<>> THEN <<>>
    ELSE IF Len(s) = 1 THEN s[1]
    ELSE s[1] \o <<sep>> \o Join(Tail(s), sep)

\* the names a hop of a path may be: fields, a related record, a name
\* that exists on the related record only, a name no object has, and the
\* empty name of a doubled or trailing '.'
Hops == { n_name, n_rack, n_label, <<"x">>, <<>> }

\* the dotted paths of at most MaxHops hops
Paths == { Join(h, ".") : h \in SeqsUpTo(Hops, MaxHops) \ {<<>>} }

\* the invocations that exercise getattr_r: one path, or a path before or
\* after a plain field, on every record, on one record and after an update
\* that empties the result
InitFields ==
    /\ options \in OptionsOn(
          Paths \cup { n_name \o <<",">> \o q : q \in Paths }
                \cup { q \o <<",">> \o n_name : q \in Paths },
          {""}, {"", "file"},
          {<<>>, <<n_name \o <<"=", "c">>>>})
    /\ args \in {<<>>, <<n_name \o <<"=", "a">>>>, <<n_name \o <<"=", "b">>>>}
    /\ Start

----------------------------------------------------------------------------
(* Command.handle (lines 90-204), one action per stage of its pipeline. *)

CommandError(line, names) ==
    [type |-> "CommandError", line |-> line, listed |-> names]

\* an exception leaves handle: the invocation ends with it
Raise(e) == pc' = "error" /\ exc' = e

Write(kind, rec, cells) == [kind |-> kind, rec |-> rec, cells |-> cells]

\* the truth value Python gives an atomic string option
Given(opt) == opt # ""

\* lines 91-96: the required options
CheckOptions ==
    /\ pc = "start"
    /\ IF ~Given(options.application) THEN Raise(CommandError(92, {}))
       ELSE IF ~Given(options.model) THEN Raise(CommandError(94, {}))
       ELSE IF /\ options.fields = <<>>
               /\ ~Given(options.template)
               /\ ~Given(options.template_file)
               /\ options.updates = <<>>
            THEN Raise(CommandError(96, {}))
       ELSE pc' = "import" /\ exc' = exc
    /\ UNCHANGED <<options, args, qargs, filtered, queryset, queried, db, out,
                   resp, prompts, applied, renders>>

\* lines 99-112: import the application's models and find the model
ImportModel ==
    /\ pc = "import"
    /\ IF options.application \notin INSTALLED_APPS
       THEN Raise(CommandError(101, INSTALLED_APPS))
       ELSE IF ~Importable(options.application)
            THEN Raise(CommandError(106, {}))
       ELSE IF options.model \notin models_(options.application)
            THEN Raise(CommandError(110, models_(options.application)))
       ELSE pc' = "model" /\ exc' = exc
    /\ UNCHANGED <<options, args, qargs, filtered, queryset, queried, db, out,
                   resp, prompts, applied, renders>>

\* lines 115-117: --list-fields writes the field names and returns
ListFields ==
    /\ pc = "model"
    /\ options.list_fields
    /\ out' = Append(out, Write("list_fields", 0, get_all_field_names))
    /\ pc' = "done"
    /\ UNCHANGED <<options, args, exc, qargs, filtered, queryset, queried, db,
                   resp, prompts, applied, renders>>

\* line 120: qargs = make_filter(args)
MakeFilter ==
    /\ pc = "model"
    /\ ~options.list_fields
    /\ filtered' = TRUE
    /\ LET r == make_filter(args)
       IN  IF r.raised
           THEN Raise(CommandError(212, {r.token})) /\ qargs' = qargs
           ELSE pc' = "filter" /\ exc' = exc /\ qargs' = r.qargs
    /\ UNCHANGED <<options, args, queryset, queried, db, out, resp, prompts,
                   applied, renders>>

\* lines 121-130: build the queryset, order it, and go on to the updates
\* if there are any
Filter ==
    /\ pc = "filter"
    /\ IF \E i \in 1..Len(qargs) : FieldErrorIn(qargs[i])
       THEN Raise(CommandError(125, {})) /\ queryset' = queryset
       ELSE /\ queryset' = "built"
            /\ exc' = exc
            /\ pc' = IF options.updates # <<>> THEN "update" ELSE "output"
    /\ UNCHANGED <<options, args, qargs, filtered, queried, db, out, resp,
                   prompts, applied, renders>>

\* lines 131-147: check the update tokens.  The keys of the dict are
\* visited in no defined order, so of several failing keys any one may be
\* the one that raises.
ValidateUpdates ==
    /\ pc = "update"
    /\ LET us      == options.updates
           bad     == {i \in 1..Len(us) : InvalidUpdate(us[i])}
           updates == UpdateDict(us)
           failing == {k \in DOMAIN updates :
                          NotAField(k) \/ InvalidChoice(k, updates[k])}
       IN  IF bad # {}
           THEN Raise(CommandError(133,
                       {us[CHOOSE i \in bad : \A j \in bad : i <= j]}))
           ELSE IF failing # {}
                THEN \E k \in failing :
                        IF NotAField(k)
                        THEN Raise(CommandError(145, valid_fields))
                        ELSE Raise([type |-> "ValueError", line |-> 147,
                                    listed |-> choices(k)])
           ELSE pc' = "show" /\ exc' = exc
    /\ UNCHANGED <<options, args, qargs, filtered, queryset, queried, db, out,
                   resp, prompts, applied, renders>>

\* the lines of lines 151-155 for the records from the i-th on
RECURSIVE Changes(_, _, _, _)
Changes(d, recs, updates, i) ==
    IF i > Len(recs) THEN <<>>
    ELSE LET obj  == ServerObj(recs[i])
             keys == Sorted(DOMAIN updates)
         IN  <<Write("obj", recs[i], <<>>)>>
             \o [j \in 1..Len(keys) |->
                    Write("change", recs[i],
                          <<keys[j], Unicode(Getattr(d, obj, keys[j])),
                            updates[keys[j]]>>)]
             \o Changes(d, recs, updates, i + 1)

\* lines 148-155: the column widths, then every record with its changes.
\* max() of line 149 is over one length per record and key: it raises
\* ValueError when the queryset holds no record
ShowChanges ==
    /\ pc = "show"
    /\ queried' = TRUE
    /\ LET recs == Evaluate(db, qargs, options.order)
       IN  IF recs = <<>>
           THEN /\ Raise([type |-> "ValueError", line |-> 149, listed |-> {}])
                /\ out' = out
           ELSE /\ out' = out \o Changes(db, recs, UpdateDict(options.updates), 1)
                /\ pc' = "prompt"
                /\ exc' = exc
    /\ UNCHANGED <<options, args, qargs, filtered, queryset, db, resp, prompts,
                   applied, renders>>

\* the test of line 157 without lower()
Approves_CaseSensitive(answer) == answer = <<"y">>

\* line 157: the answer that applies the changes
Approves(answer) == Lower(answer) = <<"y">>

\* lines 156-161: ask, then abort or apply
Prompt ==
    /\ pc = "prompt"
    /\ \E answer \in Responses :
          /\ resp' = answer
          /\ prompts' = prompts + 1
          /\ IF Approves(answer)
             THEN /\ db' = Update(db, qargs, UpdateDict(options.updates))
                  /\ applied' = applied + 1
                  /\ out' = Append(out, Write("Applied!", 0, <<>>))
             ELSE /\ db' = db
                  /\ applied' = applied
                  /\ out' = Append(out, Write("Aborted", 0, <<>>))
    /\ pc' = "output"
    /\ UNCHANGED <<options, args, exc, qargs, filtered, queryset, queried,
                   renders>>

\* line 156: standard input is at its end, raw_input raises EOFError
PromptEOF ==
    /\ pc = "prompt"
    /\ prompts' = prompts + 1
    /\ Raise([type |-> "EOFError", line |-> 156, listed |-> {}])
    /\ UNCHANGED <<options, args, qargs, filtered, queryset, queried, db, out,
                   resp, applied, renders>>

\* Template(text) raises TemplateSyntaxError
BadSyntax(text) == text = "bad"

\* template.render(Context({'objects': queryset})), written to stdout
Render(kind) ==
    /\ out' = Append(out, Write(kind, 0, Evaluate(db, qargs, options.order)))
    /\ renders' = renders + 1
    /\ queried' = TRUE

\* lines 164-169: the inline template
RenderTemplate ==
    /\ pc = "output"
    /\ IF ~Given(options.template)
       THEN pc' = "output2" /\ UNCHANGED <<exc, out, renders, queried>>
       ELSE IF BadSyntax(options.template)
            THEN Raise(CommandError(168, {})) /\ UNCHANGED <<out, renders, queried>>
       ELSE Render("template") /\ pc' = "output2" /\ exc' = exc
    /\ UNCHANGED <<options, args, qargs, filtered, queryset, db, resp, prompts,
                   applied>>

\* lines 170-186: the template of --template-file.  What standard input,
\* the file or the loader's template holds is the environment's: it parses
\* or it does not.
RenderTemplateFile ==
    /\ pc = "output2"
    /\ Given(options.template_file)
    /\ LET tf == options.template_file
       IN  \E text \in {"good", "bad"} :
              IF tf = "-"
              THEN IF BadSyntax(text)
                   THEN /\ Raise([type |-> "TemplateSyntaxError", line |-> 173,
                                  listed |-> {}])
                        /\ UNCHANGED <<out, renders, queried>>
                   ELSE Render("template_file") /\ pc' = "done" /\ exc' = exc
              ELSE IF tf = "file"
              THEN IF BadSyntax(text)
                   THEN Raise(CommandError(178, {}))
                        /\ UNCHANGED <<out, renders, queried>>
                   ELSE Render("template_file") /\ pc' = "done" /\ exc' = exc
              ELSE IF tf = "missing"
              THEN Raise(CommandError(183, {}))
                   /\ UNCHANGED <<out, renders, queried>>
              ELSE IF BadSyntax(text)
                   THEN Raise(CommandError(185, {}))
                        /\ UNCHANGED <<out, renders, queried>>
                   ELSE Render("template_file") /\ pc' = "done" /\ exc' = exc
    /\ UNCHANGED <<options, args, qargs, filtered, queryset, db, resp, prompts,
                   applied>>

\* lines 187-204: delimited output, one line per record
RenderFields ==
    /\ pc = "output2"
    /\ ~Given(options.template_file)
    /\ options.fields # <<>>
    /\ queried' = TRUE
    /\ LET fields == SplitAll(options.fields, ",")
           r == Rows(db, Evaluate(db, qargs, options.order), fields, 1, <<>>)
       IN  /\ out' = out \o r.written
           /\ IF r.error.raised
              THEN Raise(CommandError(r.error.line, r.error.listed))
              ELSE pc' = "done" /\ exc' = exc
    /\ UNCHANGED <<options, args, qargs, filtered, queryset, db, resp, prompts,
                   applied, renders>>

\* neither --template-file nor --fields: handle returns
Return ==
    /\ pc = "output2"
    /\ ~Given(options.template_file)
    /\ options.fields = <<>>
    /\ pc' = "done"
    /\ UNCHANGED <<options, args, exc, qargs, filtered, queryset, queried, db,
                   out, resp, prompts, applied, renders>>

Next ==
    \/ CheckOptions
    \/ ImportModel
    \/ ListFields
    \/ MakeFilter
    \/ Filter
    \/ ValidateUpdates
    \/ ShowChanges
    \/ Prompt
    \/ PromptEOF
    \/ RenderTemplate
    \/ RenderTemplateFile
    \/ RenderFields
    \/ Return

Spec == Init /\ [][Next]_vars

SpecFilter == InitFilter /\ [][Next]_vars

SpecUpdate == InitUpdate /\ [][Next]_vars

SpecFields == InitFields /\ [][Next]_vars

----------------------------------------------------------------------------
(* The claims. *)

Ended == pc \in {"done", "error"}

\* the token has the form key=value
HasEq(x) == \E i \in 1..Len(x) : x[i] = "="

\* the predicate the claim gives a key=value token
ExpectedQ(x) ==
    LET i       == CHOOSE k \in 1..Len(x) :
                      x[k] = "=" /\ \A j \in 1..(k-1) : x[j] # "="
        key     == SubSeq(x, 1, i - 1)
        value   == SubSeq(x, i + 1, Len(x))
        negated == key # <<>> /\ key[1] \in {"!", "~"}
        multi   == Len(key) >= 4 /\ SubSeq(key, Len(key) - 3, Len(key))
                                      = <<"_", "_", "i", "n">>
    IN  [key     |-> IF negated THEN SubSeq(key, 2, Len(key)) ELSE key,
         negated |-> negated,
         multi   |-> multi,
         items   |-> IF multi THEN SplitAll(value, ",") ELSE <<value>>]

\* C1: once make_filter has returned a list, the list is, in order, the
\* predicates of the tokens of the form key=value: equality on a plain
\* key, the comma-split value list on a key ending in __in, negation with
\* exactly one leading '!' or '~' removed, and both where both apply; and
\* a token list that holds only key=value tokens always yields its list.
C1_TokensToPredicates ==
    filtered =>
        /\ (\A i \in 1..Len(args) : HasEq(args[i])) =>
              /\ exc.line # 212
              /\ Len(qargs) = Len(args)
        /\ exc.line # 212 =>
              LET toks == SelectSeq(args, HasEq)
              IN  qargs = [i \in 1..Len(toks) |-> ExpectedQ(toks[i])]

\* C1's case: two tokens became two predicates, the first negated and
\* multi-valued with its '~' removed, the second a plain equality
C1_Witness ==
    /\ filtered
    /\ Len(args) = 2
    /\ Len(qargs) = 2
    /\ qargs[1].negated /\ qargs[1].multi /\ Len(qargs[1].items) = 2
    /\ qargs[1].key = n_name \o <<"_", "_", "i", "n">>
    /\ ~qargs[2].negated /\ ~qargs[2].multi
    /\ qargs[2].items = << <<"a", "=", "b">> >>

\* the invocation ended in make_filter's 'Invalid filter' error on token x,
\* with no predicate list and no query
InvalidFilterError(x) ==
    /\ pc = "error"
    /\ exc = [type |-> "CommandError", line |-> 212, listed |-> {x}]
    /\ qargs = <<>>
    /\ queryset = "none"
    /\ ~queried

\* C2 as stated: if any token handed to make_filter does not contain '=',
\* make_filter ends with the 'Invalid filter' error, returns no predicate
\* list and no query is executed.
C2_Original ==
    (filtered /\ \E i \in 1..Len(args) : ~HasEq(args[i])) =>
        \E i \in 1..Len(args) : InvalidFilterError(args[i])

\* C2 amended: if any non-empty token handed to make_filter does not
\* contain '=', make_filter ends with the 'Invalid filter' error naming the
\* first such token, returns no predicate list and no query is executed;
\* an empty token alone never makes it fail.
C2_NonEmptyTokensRejected ==
    filtered =>
        LET bad == {i \in 1..Len(args) : args[i] # <<>> /\ ~HasEq(args[i])}
        IN  IF bad # {}
            THEN InvalidFilterError(args[CHOOSE i \in bad : \A j \in bad : i <= j])
            ELSE exc.line # 212

\* C2's case: a valid token followed by a non-empty token without '='
\* ended the invocation in the 'Invalid filter' error
C2_Witness ==
    /\ filtered
    /\ Len(args) = 2
    /\ HasEq(args[1])
    /\ args[2] # <<>> /\ ~HasEq(args[2])
    /\ pc = "error"
    /\ exc.line = 212

\* the answers that are 'y' whatever their case
Yes == { <<"y">>, <<"Y">> }

\* C4: the bulk update runs at most once, and only after the one prompt
\* was answered 'y' or 'Y'; such an answer applies it, and after any other
\* answer, or none, no update has run and every record is as it was.
C4_ConfirmationGatesUpdate ==
    /\ applied <= 1
    /\ prompts <= 1
    /\ applied = 1 => prompts = 1 /\ resp \in Yes
    /\ (prompts = 1 /\ resp \in Yes) => applied = 1
    /\ resp \notin Yes => applied = 0 /\ db = DB0

\* C4's case: the prompt was answered 'Y' and the update changed a record
C4_Witness ==
    /\ prompts = 1
    /\ resp = <<"Y">>
    /\ applied = 1
    /\ db # DB0

\* C4's other case: the prompt was answered with the empty response and
\* the invocation went on with nothing changed
C4_WitnessAborted ==
    /\ prompts = 1
    /\ resp = <<>>
    /\ pc = "done"
    /\ out # <<>>
    /\ db = DB0

\* the names of obj that a message lists: those not starting with '_'
Available(obj) == {x \in Dir(obj) : x = <<>> \/ x[1] # "_"}

\* following the hops one after the other from obj: the value reached, or
\* the object on which a hop is missing
RECURSIVE Follow(_, _, _)
Follow(d, obj, hops) ==
    IF hops = <<>> THEN [ok |-> TRUE, at |-> obj]
    ELSE IF Head(hops) \in Dir(obj)
         THEN Follow(d, Getattr(d, obj, Head(hops)), Tail(hops))
         ELSE [ok |-> FALSE, at |-> obj]

\* the delimited output stage has run
FieldsRendered ==
    /\ Ended
    /\ options.fields # <<>>
    /\ options.template_file = ""
    /\ ~options.list_fields
    /\ pc = "error" => exc.line \in {195, 200}

\* C7: when the delimited output has run, every record before the first
\* one with a path that does not resolve has its line, holding for each
\* path a1.a2...an of --fields the value reached by following a1, a2, ...,
\* an from the record; if a path of a record does not resolve, the
\* invocation ended in the CommandError that lists the names not starting
\* with '_' of the object on which the hop is missing, and no line was
\* written for that record; otherwise it ended without error.
C7_PathsResolveThroughRelatedRecords ==
    FieldsRendered =>
        LET recs   == Evaluate(db, qargs, options.order)
            fields == SplitAll(options.fields, ",")
            lines  == SelectSeq(out, LAMBDA w : w.kind = "fields")
            res(r, j) == Follow(db, ServerObj(r), SplitAll(fields[j], "."))
            fails(r)  == {j \in 1..Len(fields) : ~res(r, j).ok}
            bad    == {i \in 1..Len(recs) : fails(recs[i]) # {}}
            n      == IF bad = {} THEN Len(recs)
                      ELSE (CHOOSE i \in bad : \A k \in bad : i <= k) - 1
        IN  /\ Len(lines) = n
            /\ \A i \in 1..n :
                  /\ lines[i].rec = recs[i]
                  /\ lines[i].cells =
                        [j \in 1..Len(fields) |-> Unicode(res(recs[i], j).at)]
            /\ IF bad = {} THEN pc = "done"
               ELSE LET r == recs[n + 1]
                        j == CHOOSE j \in fails(r) : \A k \in fails(r) : j <= k
                    IN  /\ pc = "error"
                        /\ exc.type = "CommandError"
                        /\ exc.listed = Available(res(r, j).at)

\* C7's case: a path of two hops resolved through the related record of
\* the first record, whose line was written, and the same path failed on
\* the second record, which has no related record, listing no name
C7_Witness ==
    /\ FieldsRendered
    /\ options.fields = n_rack \o <<".">> \o n_label
    /\ Len(out) = 1
    /\ out[1].kind = "fields" /\ out[1].cells = << <<"r">> >>
    /\ pc = "error"
    /\ exc.listed = {}

\* C7's other case: the second hop is missing on the related record, and
\* the error lists the related record's names, not the record's
C7_WitnessRelated ==
    /\ FieldsRendered
    /\ options.fields = n_rack \o <<".">> \o n_name
    /\ pc = "error"
    /\ exc.listed = {n_label, n_save}
    /\ out = <<>>

\* the -u token passes the three checks of the claim: it contains '=', it
\* names a direct field, and its value is one of the field's choices if
\* the field has any
TokenChecks(u) ==
    /\ HasEq(u)
    /\ LET key == Split1(u, "=")[1]
           val == Split1(u, "=")[2]
       IN  /\ key \in valid_fields
           /\ choices(key) # {} => val \in choices(key)

\* handle has gone past the checks of the update tokens
PastValidation ==
    \/ pc \in {"show", "prompt", "output", "output2", "done"}
    \/ pc = "error" /\ exc.line \in {149, 156, 168, 173, 178, 183, 185, 195, 200}

\* C3 as stated: the prompt is shown and the update applied only after
\* every -u token has passed the three checks, and handle never goes past
\* the checks with a token that fails one: it ends in an error instead,
\* without a prompt and with every record as it was.
C3_Original ==
    /\ (prompts > 0 \/ applied > 0) =>
          \A i \in 1..Len(options.updates) : TokenChecks(options.updates[i])
    /\ (~options.list_fields /\ options.updates # <<>> /\ PastValidation) =>
          \A i \in 1..Len(options.updates) : TokenChecks(options.updates[i])

\* C5 as stated: an invocation never writes both delimited field output
\* and template output, and renders through at most one template.
C5_Original ==
    /\ ~ /\ \E i \in 1..Len(out) : out[i].kind = "fields"
         /\ \E i \in 1..Len(out) : out[i].kind \in {"template", "template_file"}
    /\ renders <= 1

\* the lines that raise for the causes C6 names: the required flags, the
\* application and the model, the filter and update tokens, the update
\* field and choice, the --fields path, and the template of every source
NamedErrorLines ==
    {92, 94, 96, 101, 106, 110, 212, 125, 133, 145, 147, 195, 200,
     168, 173, 178, 183, 185}

\* C6 as stated: each of the named errors ends the invocation with a
\* CommandError, never with an exception of another kind.
C6_Original ==
    (pc = "error" /\ exc.line \in NamedErrorLines) => exc.type = "CommandError"

\* C8 as stated: with --list-fields and an application and model that
\* resolve, the invocation writes the field names and ends, without
\* parsing filter tokens, querying, prompting, updating or rendering,
\* whatever the other options and tokens are.
C8_Original ==
    ( /\ Ended
      /\ options.list_fields
      /\ options.application \in INSTALLED_APPS
      /\ Importable(options.application)
      /\ options.model \in models_(options.application) ) =>
        /\ pc = "done"
        /\ Len(out) = 1 /\ out[1].kind = "list_fields"
        /\ ~filtered /\ queryset = "none" /\ ~queried
        /\ prompts = 0 /\ applied = 0 /\ renders = 0 /\ db = DB0

\* C9 as stated: an invocation that ends in an error has changed no
\* record: once the update has been applied, no later step fails.
C9_Original ==
    pc = "error" => applied = 0 /\ db = DB0

\* the model resolves, the filter tokens parse, the query is built and
\* the update tokens are valid
UpdateReady ==
    /\ ~options.list_fields
    /\ options.updates # <<>>
    /\ options.application \in INSTALLED_APPS
    /\ Importable(options.application)
    /\ options.model \in models_(options.application)
    /\ \A i \in 1..Len(args) : args[i] = <<>> \/ HasEq(args[i])
    /\ \A i \in 1..Len(qargs) : ~FieldErrorIn(qargs[i])
    /\ \A i \in 1..Len(options.updates) : TokenChecks(options.updates[i])

\* C10 as stated: with at least one -u token and resolution, parsing,
\* query construction and validation succeeding, the invocation shows the
\* prompt exactly once, whatever the number of matched records, zero
\* included.
C10_Original ==
    (Ended /\ UpdateReady) => prompts = 1

====
